---- MODULE Spec2Model ----
(***************************************************************************)
(* DELLEMC Z9100 platform Chassis (sonic_platform/chassis.py).             *)
(*                                                                         *)
(* The Chassis object is built once (__init__), then its accessors are     *)
(* called against the hardware: the SMF mailbox register files, the        *)
(* iom_cpld_vers files, the /dev/port I/O port and the dmidecode command.  *)
(* Python strings are sequences of one-character strings, so that strip,   *)
(* split, int() and "%d" are computed character by character.  A call's    *)
(* outcome is a record saying whether it returned or raised, and what.     *)
(* The code is Python 2 (Popen output is a str); int() and float() are    *)
(* modelled on the texts the hardware sets below can hold.  Exhaustion of  *)
(* the process's descriptor table is not modelled.                         *)
(***************************************************************************)
EXTENDS Integers, Sequences, FiniteSets, TLC

VARIABLES
    cls,                   \* the Chassis class attributes (tables)
    pc,                    \* position of __init__, "ready" once constructed
    sfp_list,              \* self._sfp_list
    fan_list,              \* self._fan_list
    component_name_list,   \* self._component_name_list
    sys_eeprom,            \* self.sys_eeprom
    hw,                    \* the hardware the accessors read
    open_fds,              \* handles the process holds open
    call                   \* the latest accessor call against this hardware

vars == <<cls, pc, sfp_list, fan_list, component_name_list, sys_eeprom, hw,
          open_fds, call>>

-----------------------------------------------------------------------------
(* Bounds of the model *)

\* register values written by the hardware are 0..MaxReason
MaxReason == 99
\* longest text drawn for a mailbox register file
MaxRegLen == 5
\* longest text drawn for an iom_cpld_vers file
MaxVersLen == 4
\* handles left open before the model stops issuing calls that leave more
MaxOpenFds == 2

-----------------------------------------------------------------------------
(* Program constants *)

MAX_Z9100_FANTRAY == 5
MAX_Z9100_FAN == 2
PORT_END == 31
PORTS_IN_BLOCK == PORT_END + 1
CPLD1_VERSION_ADDR == 256
ByteMax == 255

COMPONENT_BIOS == "BIOS"
SWITCH_CPLD1 == "CPLD1"
SWITCH_CPLD2 == "CPLD2"
SWITCH_CPLD3 == "CPLD3"
SWITCH_CPLD4 == "CPLD4"
SMF_FPGA == "FPGA1"
BIOS_QUERY_VERSION_COMMAND == "dmidecode -s system-version"

EEPROM_I2C_MAPPING ==
    [index \in 0..31 |->
        << <<9, 18>>, <<9, 19>>, <<9, 20>>, <<9, 21>>,
           <<9, 22>>, <<9, 23>>, <<9, 24>>, <<9, 25>>,
           <<8, 26>>, <<8, 27>>, <<8, 28>>, <<8, 29>>,
           <<8, 31>>, <<8, 30>>, <<8, 33>>, <<8, 32>>,
           <<7, 34>>, <<7, 35>>, <<7, 36>>, <<7, 37>>,
           <<7, 38>>, <<7, 39>>, <<7, 40>>, <<7, 41>>,
           <<6, 42>>, <<6, 43>>, <<6, 44>>, <<6, 45>>,
           <<6, 46>>, <<6, 47>>, <<6, 48>>, <<6, 49>> >>[index + 1]]

PORT_I2C_MAPPING ==
    [index \in 0..31 |->
        << <<14, 0>>, <<14, 1>>, <<14, 2>>, <<14, 3>>,
           <<14, 4>>, <<14, 5>>, <<14, 6>>, <<14, 7>>,
           <<14, 8>>, <<14, 9>>, <<14, 10>>, <<14, 11>>,
           <<15, 0>>, <<15, 1>>, <<15, 2>>, <<15, 3>>,
           <<15, 4>>, <<15, 5>>, <<15, 6>>, <<15, 7>>,
           <<15, 8>>, <<15, 9>>, <<16, 0>>, <<16, 1>>,
           <<16, 2>>, <<16, 3>>, <<16, 4>>, <<16, 5>>,
           <<16, 6>>, <<16, 7>>, <<16, 8>>, <<16, 9>> >>[index + 1]]

reset_reason_dict ==
    (11 :> "REBOOT_CAUSE_POWER_LOSS") @@ (33 :> "REBOOT_CAUSE_WATCHDOG") @@
    (44 :> "REBOOT_CAUSE_NON_HARDWARE") @@ (55 :> "REBOOT_CAUSE_NON_HARDWARE")

power_reason_dict ==
    (11 :> "REBOOT_CAUSE_POWER_LOSS") @@
    (22 :> "REBOOT_CAUSE_THERMAL_OVERLOAD_CPU") @@
    (33 :> "REBOOT_CAUSE_THERMAL_OVERLOAD_ASIC") @@
    (44 :> "REBOOT_CAUSE_INSUFFICIENT_FAN_SPEED")

\* the class attributes as the class body leaves them
ClassAttributes ==
    [EEPROM_I2C_MAPPING |-> EEPROM_I2C_MAPPING,
     PORT_I2C_MAPPING   |-> PORT_I2C_MAPPING,
     reset_reason_dict  |-> reset_reason_dict,
     power_reason_dict  |-> power_reason_dict]

-----------------------------------------------------------------------------
(* Python string primitives *)

Whitespace == {" ", "\t", "\n", "\r"}
DecDigits == <<"0", "1", "2", "3", "4", "5", "6", "7", "8", "9">>
HexLower == <<"0", "1", "2", "3", "4", "5", "6", "7", "8", "9",
              "a", "b", "c", "d", "e", "f">>
HexUpper == <<"0", "1", "2", "3", "4", "5", "6", "7", "8", "9",
              "A", "B", "C", "D", "E", "F">>

ERR == <<"E", "R", "R">>
NA == <<"N", "A">>
ReadError == <<"r", "e", "a", "d", " ", "e", "r", "r", "o", "r">>

\* s.rstrip(chars)
RECURSIVE RStrip(_, _)
RStrip(s, chars) ==
    IF s # <<>> /\ s[Len(s)] \in chars
    THEN RStrip(SubSeq(s, 1, Len(s) - 1), chars)
    ELSE s

\* s.lstrip(chars)
RECURSIVE LStrip(_, _)
LStrip(s, chars) ==
    IF s # <<>> /\ Head(s) \in chars THEN LStrip(Tail(s), chars) ELSE s

\* s.split(sep) for a one-character sep: the list of fields
RECURSIVE Split(_, _)
Split(s, sep) ==
    IF \E k \in 1..Len(s) : s[k] = sep
    THEN LET k == CHOOSE k \in 1..Len(s) :
                      s[k] = sep /\ \A m \in 1..(k - 1) : s[m] # sep
         IN  <<SubSeq(s, 1, k - 1)>> \o Split(SubSeq(s, k + 1, Len(s)), sep)
    ELSE <<s>>

\* value of one digit in the given base, -1 when it is no digit of the base
DigitValue(c, base) ==
    IF \E d \in 1..base : HexLower[d] = c \/ HexUpper[d] = c
    THEN (CHOOSE d \in 1..base : HexLower[d] = c \/ HexUpper[d] = c) - 1
    ELSE -1

\* value of a digit string, most significant digit first
RECURSIVE DigitsValue(_, _)
DigitsValue(s, base) ==
    IF s = <<>> THEN 0
    ELSE DigitsValue(SubSeq(s, 1, Len(s) - 1), base) * base
         + DigitValue(s[Len(s)], base)

\* int(s, base): surrounding whitespace, an optional sign, for base 16 an
\* optional 0x, then one or more digits; anything else is a ValueError
IntParse(s, base) ==
    LET t    == LStrip(RStrip(s, Whitespace), Whitespace)
        neg  == t # <<>> /\ Head(t) = "-"
        u    == IF t # <<>> /\ Head(t) \in {"-", "+"} THEN Tail(t) ELSE t
        pfx  == base = 16 /\ Len(u) >= 2 /\ u[1] = "0" /\ u[2] \in {"x", "X"}
        d    == IF pfx THEN SubSeq(u, 3, Len(u)) ELSE u
        good == d # <<>> /\ \A k \in 1..Len(d) : DigitValue(d[k], base) >= 0
    IN  IF good
        THEN [ok |-> TRUE,
              val |-> IF neg THEN 0 - DigitsValue(d, base)
                      ELSE DigitsValue(d, base)]
        ELSE [ok |-> FALSE, val |-> 0]

\* "%d" % n
RECURSIVE DecStr(_)
DecStr(n) ==
    IF n < 0 THEN <<"-">> \o DecStr(0 - n)
    ELSE IF n < 10 THEN <<DecDigits[n + 1]>>
    ELSE DecStr(n \div 10) \o <<DecDigits[(n % 10) + 1]>>

\* float(s) on the texts the model draws: surrounding whitespace, an
\* optional sign, digits with at most one point and at least one digit
FloatParse(s) ==
    LET t    == LStrip(RStrip(s, Whitespace), Whitespace)
        u    == IF t # <<>> /\ Head(t) \in {"-", "+"} THEN Tail(t) ELSE t
        dots == {k \in 1..Len(u) : u[k] = "."}
        good == /\ Cardinality(dots) <= 1
                /\ \E k \in 1..Len(u) : DigitValue(u[k], 10) >= 0
                /\ \A k \in 1..Len(u) :
                       u[k] = "." \/ DigitValue(u[k], 10) >= 0
    IN  [ok |-> good, val |-> IF good THEN t ELSE <<>>]

-----------------------------------------------------------------------------
(* Hardware and call outcomes *)

\* a file: whether it exists, how opening or reading it fails, its content
File(exists, fault, content) ==
    [exists |-> exists, fault |-> fault, content |-> content]

AbsentFile == File(FALSE, "none", <<>>)

RegisterNames == {"smf_reset_reason", "smf_poweron_reason", "smf_firmware_ver"}
CpldBuses == 14..16

MailboxFile(reg_name) == [kind |-> "mailbox", name |-> reg_name, bus |-> 0]
CpldVersionFile(cpld_number) ==
    [kind |-> "cpld", name |-> "iom_cpld_vers", bus |-> 12 + cpld_number]
IoResource == [kind |-> "port", name |-> "/dev/port", bus |-> 0]
BiosCommand ==
    [kind |-> "cmd", name |-> BIOS_QUERY_VERSION_COMMAND, bus |-> 0]

\* the file a path names on hardware h
FileAt(h, res) ==
    IF res.kind = "mailbox" /\ res.name \in DOMAIN h.mailbox
    THEN h.mailbox[res.name]
    ELSE IF res.kind = "cpld" /\ res.bus \in DOMAIN h.cpld
    THEN h.cpld[res.bus]
    ELSE AbsentFile

\* os.path.isfile(path)
IsFile(h, res) == FileAt(h, res).exists

\* a value handed back by a call, or the exception that ended it
Returned(type, val, fds, reads) ==
    [kind |-> "return", type |-> type, val |-> val, fds |-> fds,
     reads |-> reads]
Raised(exc, fds, reads) ==
    [kind |-> "raise", type |-> exc, val |-> <<>>, fds |-> fds,
     reads |-> reads]

\* with open(path, 'r') as fd: fd.read()
\* the handle is closed when the block is left, by return or by exception
WithOpenRead(h, res, fds) ==
    LET f == FileAt(h, res)
    IN  IF ~f.exists \/ f.fault = "open"
        THEN Raised("IOError", fds, <<res>>)
        ELSE IF f.fault = "read"
        THEN Raised("IOError", (fds + 1) - 1, <<res>>)
        ELSE Returned("str", f.content, (fds + 1) - 1, <<res>>)

\* the strip gone wrong: rv.strip(), which takes all whitespace at both ends
StripRegister_AllWhitespace(rv) == LStrip(RStrip(rv, Whitespace), Whitespace)

\* rv.rstrip('\r\n') then rv.lstrip(" ")
StripRegister(rv) == LStrip(RStrip(rv, {"\r", "\n"}), {" "})

\* Chassis._get_pmc_register
_get_pmc_register(h, reg_name, fds) ==
    LET mb_reg_file == MailboxFile(reg_name)
    IN  IF ~IsFile(h, mb_reg_file)
        THEN Returned("str", ERR, fds, <<mb_reg_file>>)
        ELSE LET r  == WithOpenRead(h, mb_reg_file, fds)
                 rv == IF r.kind = "raise" THEN ERR ELSE r.val
             IN  Returned("str", StripRegister(rv), r.fds, r.reads)

\* the decision gone wrong: a power-loss reset whose power-on reason is
\* unlisted falls back on the reset-cause table
RebootCause_FallsBack(reset_reason, power_reason) ==
    IF reset_reason = 11 /\ power_reason \in DOMAIN cls.power_reason_dict
    THEN <<cls.power_reason_dict[power_reason], "None">>
    ELSE IF reset_reason \in DOMAIN cls.reset_reason_dict
    THEN <<cls.reset_reason_dict[reset_reason], "None">>
    ELSE <<"REBOOT_CAUSE_HARDWARE_OTHER", "Invalid Reason">>

\* Chassis.get_reboot_cause, the decision on the two parsed registers
RebootCause(reset_reason, power_reason) ==
    IF reset_reason = 11 /\ power_reason \in DOMAIN cls.power_reason_dict
    THEN <<cls.power_reason_dict[power_reason], "None">>
    ELSE IF reset_reason # 11 /\ reset_reason \in DOMAIN cls.reset_reason_dict
    THEN <<cls.reset_reason_dict[reset_reason], "None">>
    ELSE <<"REBOOT_CAUSE_HARDWARE_OTHER", "Invalid Reason">>

\* Chassis.get_reboot_cause
get_reboot_cause(h, fds) ==
    LET r1           == _get_pmc_register(h, "smf_reset_reason", fds)
        reset_reason == IntParse(r1.val, 10)
        r2           == _get_pmc_register(h, "smf_poweron_reason", r1.fds)
        power_reason == IntParse(r2.val, 10)
    IN  IF ~reset_reason.ok THEN Raised("ValueError", r1.fds, r1.reads)
        ELSE IF ~power_reason.ok
        THEN Raised("ValueError", r2.fds, r1.reads \o r2.reads)
        ELSE Returned("tuple", RebootCause(reset_reason.val, power_reason.val),
                      r2.fds, r1.reads \o r2.reads)

\* Chassis._get_command_result
_get_command_result(h, fds) ==
    IF ~h.bios.launch_ok
    THEN Returned("str", <<>>, fds, <<BiosCommand>>)
    ELSE Returned("str", RStrip(h.bios.stdout, {"\n"}), fds, <<BiosCommand>>)

\* cpld_version & 0xF0 and cpld_version & 0xF on Python's unbounded integers
BitAndF0(v) == (v % 256) - (v % 16)
BitAndF(v) == v % 16

\* the format gone wrong: the high nibble is masked but not shifted
VersionString_NoShift(cpld_version) ==
    DecStr(BitAndF0(cpld_version)) \o <<".">> \o DecStr(BitAndF(cpld_version))

\* "%d.%d" % (((cpld_version & 0xF0) >> 4), cpld_version & 0xF)
VersionString(cpld_version) ==
    DecStr(BitAndF0(cpld_version) \div 16) \o <<".">>
        \o DecStr(BitAndF(cpld_version))

\* os.open(io_resource, os.O_RDONLY), when it does not raise: the lowest
\* free descriptor, never negative
OsOpen(h, fds) == 3 + fds

\* os.lseek(fd, pos, os.SEEK_SET): the offset reached
OsLseek(h, pos) == IF h.port.fault = "seek_wrong" THEN 0 ELSE pos

\* Chassis._get_cpld_version, cpld_number == 1
GetCpld1Version(h, fds) ==
    LET fd == OsOpen(h, fds)
    IN  IF h.port.fault = "open" THEN Raised("OSError", fds, <<IoResource>>)
        ELSE IF fd < 0 THEN Returned("str", NA, fds, <<IoResource>>)
        ELSE IF h.port.fault = "seek_error"
        THEN Raised("OSError", fds + 1, <<IoResource>>)
        ELSE IF OsLseek(h, CPLD1_VERSION_ADDR) # CPLD1_VERSION_ADDR
        THEN Returned("str", NA, fds + 1, <<IoResource>>)
        ELSE IF h.port.fault = "read_error"
        THEN Raised("OSError", fds + 1, <<IoResource>>)
        ELSE IF h.port.fault = "read_empty"
        THEN Raised("TypeError", fds + 1, <<IoResource>>)
        ELSE Returned("str", VersionString(h.port.byte), (fds + 1) - 1,
                      <<IoResource>>)

\* Chassis._get_cpld_version, cpld_number # 1
GetIomCpldVersion(h, cpld_number, fds) ==
    LET cpld_version_file == CpldVersionFile(cpld_number)
    IN  IF ~IsFile(h, cpld_version_file)
        THEN Returned("str", NA, fds, <<cpld_version_file>>)
        ELSE
        LET r == WithOpenRead(h, cpld_version_file, fds)
        IN  IF r.kind = "raise" THEN Returned("str", NA, r.fds, r.reads)
            ELSE IF r.val = ReadError THEN Returned("str", NA, r.fds, r.reads)
            ELSE
            LET ver_str == RStrip(r.val, {"\r", "\n"})
                fields  == Split(ver_str, ":")
            IN  IF Len(fields) < 2 THEN Raised("IndexError", r.fds, r.reads)
                ELSE
                LET cpld_version == IntParse(fields[2], 16)
                IN  IF ~cpld_version.ok
                    THEN Raised("ValueError", r.fds, r.reads)
                    ELSE Returned("str", VersionString(cpld_version.val),
                                  r.fds, r.reads)

\* Chassis._get_cpld_version
_get_cpld_version(h, cpld_number, fds) ==
    IF cpld_number = 1 THEN GetCpld1Version(h, fds)
    ELSE GetIomCpldVersion(h, cpld_number, fds)

\* Chassis._get_fpga_version
_get_fpga_version(h, fds) ==
    LET r        == _get_pmc_register(h, "smf_firmware_ver", fds)
        fpga_ver == FloatParse(r.val)
    IN  IF ~fpga_ver.ok THEN Raised("ValueError", r.fds, r.reads)
        ELSE Returned("float", fpga_ver.val, r.fds, r.reads)

\* x in list
InList(x, list) == \E k \in 1..Len(list) : list[k] = x

\* the dispatch gone wrong: the CPLD3 branch reads CPLD number 4
get_firmware_version_CopiedBranch(h, names, component_name, fds) ==
    IF InList(component_name, names)
    THEN CASE component_name = COMPONENT_BIOS -> _get_command_result(h, fds)
           [] component_name = SWITCH_CPLD1   -> _get_cpld_version(h, 1, fds)
           [] component_name = SWITCH_CPLD2   -> _get_cpld_version(h, 2, fds)
           [] component_name = SWITCH_CPLD3   -> _get_cpld_version(h, 4, fds)
           [] component_name = SWITCH_CPLD4   -> _get_cpld_version(h, 4, fds)
           [] component_name = SMF_FPGA       -> _get_fpga_version(h, fds)
           [] OTHER -> Returned("None", <<>>, fds, <<>>)
    ELSE Returned("None", <<>>, fds, <<>>)

\* Chassis.get_firmware_version
get_firmware_version(h, names, component_name, fds) ==
    IF InList(component_name, names)
    THEN CASE component_name = COMPONENT_BIOS -> _get_command_result(h, fds)
           [] component_name = SWITCH_CPLD1   -> _get_cpld_version(h, 1, fds)
           [] component_name = SWITCH_CPLD2   -> _get_cpld_version(h, 2, fds)
           [] component_name = SWITCH_CPLD3   -> _get_cpld_version(h, 3, fds)
           [] component_name = SWITCH_CPLD4   -> _get_cpld_version(h, 4, fds)
           [] component_name = SMF_FPGA       -> _get_fpga_version(h, fds)
           [] OTHER -> Returned("None", <<>>, fds, <<>>)
    ELSE Returned("None", <<>>, fds, <<>>)

-----------------------------------------------------------------------------
(* Construction *)

\* eeprom_base.format(bus, addr)
EepromPath(bus, addr) ==
    <<"/sys/class/i2c-adapter/i2c-", bus, "/i2c-", addr, "/", addr,
      "-0050/eeprom">>

\* sfp_ctrl_base.format(bus)
SfpControlPath(bus) ==
    <<"/sys/class/i2c-adapter/i2c-", bus, "/", bus, "-003e/">>

\* the node gone wrong: the EEPROM path is built from the port mapping
SfpNode_PortMapping(index) ==
    [index       |-> index,
     sfp_type    |-> "QSFP",
     eeprom_path |-> EepromPath(cls.PORT_I2C_MAPPING[index][1],
                                cls.PORT_I2C_MAPPING[index][2]),
     sfp_control |-> SfpControlPath(cls.PORT_I2C_MAPPING[index][1]),
     port        |-> cls.PORT_I2C_MAPPING[index][2]]

\* Sfp(index, 'QSFP', eeprom_path, sfp_control, cls.PORT_I2C_MAPPING[index][1])
SfpNode(index) ==
    [index       |-> index,
     sfp_type    |-> "QSFP",
     eeprom_path |-> EepromPath(cls.EEPROM_I2C_MAPPING[index][1],
                                cls.EEPROM_I2C_MAPPING[index][2]),
     sfp_control |-> SfpControlPath(cls.PORT_I2C_MAPPING[index][1]),
     port        |-> cls.PORT_I2C_MAPPING[index][2]]

\* Fan(i, j)
Fan(i, j) == [fantray_index |-> i, fan_index |-> j]

\* the names __init__ appends to self._component_name_list
ComponentNames ==
    <<COMPONENT_BIOS, SWITCH_CPLD1, SWITCH_CPLD2, SWITCH_CPLD3, SWITCH_CPLD4,
      SMF_FPGA>>

At(at, i, j) == [at |-> at, i |-> i, j |-> j]

NoCall ==
    [op |-> "none", arg |-> "", kind |-> "none", type |-> "", val |-> <<>>,
     reads |-> <<>>]

\* the record of a call from its outcome
Called(op, arg, r) ==
    [op |-> op, arg |-> arg, kind |-> r.kind, type |-> r.type,
     val |-> r.val, reads |-> r.reads]

\* for index in range(0, PORTS_IN_BLOCK): self._sfp_list.append(sfp_node)
InitSfp ==
    /\ pc.at = "sfp"
    /\ sfp_list' = Append(sfp_list, SfpNode(pc.i))
    /\ pc' = IF pc.i + 1 < PORTS_IN_BLOCK THEN At("sfp", pc.i + 1, 0)
             ELSE At("base", 0, 0)
    /\ UNCHANGED <<cls, fan_list, component_name_list, sys_eeprom, hw,
                   open_fds, call>>

\* ChassisBase.__init__(self): the lists this class fills are left as they are
ChassisBaseInit ==
    /\ pc.at = "base"
    /\ pc' = At("eeprom", 0, 0)
    /\ UNCHANGED <<cls, sfp_list, fan_list, component_name_list, sys_eeprom,
                   hw, open_fds, call>>

\* the identities an Eeprom() may hold
Z9100Eeprom(n) ==
    [modelstr          |-> <<"Z", "9", "1", "0", "0">>,
     part_number_str   |-> <<"0", "P", n>>,
     serial_str        |-> <<"S", "T", n>>,
     base_mac_addr     |-> <<"0", "0", ":", "0", n>>,
     serial_number_str |-> <<"S", "N", n>>]

EepromContents == {Z9100Eeprom(n) : n \in {"1", "2"}}

NoEeprom ==
    [modelstr |-> <<>>, part_number_str |-> <<>>, serial_str |-> <<>>,
     base_mac_addr |-> <<>>, serial_number_str |-> <<>>]

\* self.sys_eeprom = Eeprom()
InitEeprom ==
    /\ pc.at = "eeprom"
    /\ sys_eeprom' \in EepromContents
    /\ pc' = At("fan", 0, 0)
    /\ UNCHANGED <<cls, sfp_list, fan_list, component_name_list, hw,
                   open_fds, call>>

\* for i in range(MAX_Z9100_FANTRAY): for j in range(MAX_Z9100_FAN):
\*     self._fan_list.append(Fan(i, j))
InitFan ==
    /\ pc.at = "fan"
    /\ fan_list' = Append(fan_list, Fan(pc.i, pc.j))
    /\ pc' = IF pc.j + 1 < MAX_Z9100_FAN THEN At("fan", pc.i, pc.j + 1)
             ELSE IF pc.i + 1 < MAX_Z9100_FANTRAY THEN At("fan", pc.i + 1, 0)
             ELSE At("comp", 0, 0)
    /\ UNCHANGED <<cls, sfp_list, component_name_list, sys_eeprom, hw,
                   open_fds, call>>

\* self._component_name_list.append(...), six times
InitComponentList ==
    /\ pc.at = "comp"
    /\ component_name_list' = component_name_list \o ComponentNames
    /\ pc' = At("ready", 0, 0)
    /\ UNCHANGED <<cls, sfp_list, fan_list, sys_eeprom, hw, open_fds, call>>

-----------------------------------------------------------------------------
(* Accessor calls *)

Ready == pc.at = "ready"

\* an accessor that opens no handle: the call is recorded, nothing else moves
Answer(op, arg, r) ==
    /\ Ready
    /\ r.fds <= MaxOpenFds
    /\ call' = Called(op, arg, r)
    /\ open_fds' = r.fds
    /\ UNCHANGED <<cls, pc, sfp_list, fan_list, component_name_list,
                   sys_eeprom, hw>>

\* Chassis.get_name
get_name(fds) == Returned("str", sys_eeprom.modelstr, fds, <<>>)

GetName == Answer("get_name", "", get_name(open_fds))

\* Chassis.get_presence
get_presence(fds) == Returned("bool", <<"True">>, fds, <<>>)

GetPresence == Answer("get_presence", "", get_presence(open_fds))

\* Chassis.get_model
get_model(fds) == Returned("str", sys_eeprom.part_number_str, fds, <<>>)

GetModel == Answer("get_model", "", get_model(open_fds))

\* Chassis.get_serial
get_serial(fds) == Returned("str", sys_eeprom.serial_str, fds, <<>>)

GetSerial == Answer("get_serial", "", get_serial(open_fds))

\* the status gone wrong: it follows the I/O port instead of being constant
get_status_FromPort(fds) ==
    Returned("bool", IF hw.port.fault = "open" THEN <<"False">> ELSE <<"True">>,
             fds, <<>>)

\* Chassis.get_status
get_status(fds) == Returned("bool", <<"True">>, fds, <<>>)

GetStatus == Answer("get_status", "", get_status(open_fds))

\* Chassis.get_base_mac
get_base_mac(fds) == Returned("str", sys_eeprom.base_mac_addr, fds, <<>>)

GetBaseMac == Answer("get_base_mac", "", get_base_mac(open_fds))

\* Chassis.get_serial_number
get_serial_number(fds) ==
    Returned("str", sys_eeprom.serial_number_str, fds, <<>>)

GetSerialNumber == Answer("get_serial_number", "", get_serial_number(open_fds))

\* Chassis.get_reboot_cause
GetRebootCause ==
    Answer("get_reboot_cause", "", get_reboot_cause(hw, open_fds))

\* register names a caller may pass: the three the chassis reads, one unknown
RegisterArgs == RegisterNames \cup {"no_such_register"}

\* Chassis._get_pmc_register, called on its own
ReadRegister ==
    \E reg_name \in RegisterArgs :
        Answer("read_register", reg_name,
               _get_pmc_register(hw, reg_name, open_fds))

\* component names a caller may pass: the registered six and some others
ComponentArgs ==
    {COMPONENT_BIOS, SWITCH_CPLD1, SWITCH_CPLD2, SWITCH_CPLD3, SWITCH_CPLD4,
     SMF_FPGA, "UNKNOWN", "cpld1", "CPLD5", ""}

\* Chassis.get_firmware_version
GetFirmwareVersion ==
    \E component_name \in ComponentArgs :
        Answer("get_firmware_version", component_name,
               get_firmware_version(hw, component_name_list,
                                        component_name, open_fds))

-----------------------------------------------------------------------------
(* The hardware the calls are run against *)

\* every text of at most n characters over an alphabet
RECURSIVE Texts(_, _)
Texts(alphabet, n) ==
    IF n = 0 THEN {<<>>}
    ELSE LET shorter == Texts(alphabet, n - 1)
         IN  shorter \cup {Append(t, c) : t \in shorter, c \in alphabet}

\* a file with one of the given contents, or absent, or failing to open or read
FilesWith(contents) ==
    {File(TRUE, "none", t) : t \in contents}
        \cup {AbsentFile, File(TRUE, "open", <<>>), File(TRUE, "read", <<>>)}

Port(fault, byte) == [fault |-> fault, byte |-> byte]
PortFaults == {"open", "seek_wrong", "seek_error", "read_error", "read_empty"}
Bios(launch_ok, stdout) == [launch_ok |-> launch_ok, stdout |-> stdout]

\* a healthy switch
GoodHw ==
    [mailbox |-> [reg_name \in RegisterNames |->
                     CASE reg_name = "smf_reset_reason" ->
                              File(TRUE, "none", <<"3", "3", "\n">>)
                       [] reg_name = "smf_poweron_reason" ->
                              File(TRUE, "none", <<"1", "1", "\n">>)
                       [] OTHER ->
                              File(TRUE, "none", <<"1", ".", "2", "\n">>)],
     cpld    |-> [bus \in CpldBuses |->
                     File(TRUE, "none", <<"v", ":">> \o DecStr(bus) \o <<"\n">>)],
     port    |-> Port("none", 35),
     bios    |-> Bios(TRUE, <<"1", ".", "0", "\n">>)]

\* reset and power-on reason registers: every value 0..MaxReason as the
\* driver prints it, and texts that are no plain number
ReasonFiles ==
    FilesWith({DecStr(n) \o <<"\n">> : n \in 0..MaxReason}
              \cup {<<>>, <<" ", "3", "3", "\r", "\n">>, <<"-", "1", "1", "\n">>,
                    <<"3", "x", "\n">>, <<"0", "x", "1", "1", "\n">>, ERR})

RebootHw ==
    {[GoodHw EXCEPT !.mailbox["smf_reset_reason"] = r,
                    !.mailbox["smf_poweron_reason"] = p] :
        r \in ReasonFiles, p \in ReasonFiles}

\* one mailbox register holding any short text of spaces, line ends and a digit
RegAlphabet == {" ", "\r", "\n", "5"}

RegisterHw ==
    {[GoodHw EXCEPT !.mailbox[reg_name] = f] :
        reg_name \in RegisterNames,
        f \in FilesWith(Texts(RegAlphabet, MaxRegLen))}

\* one component's resource varied at a time
VersAlphabet == {":", "2", "a", "g"}

VersFiles ==
    FilesWith(Texts(VersAlphabet, MaxVersLen)
              \cup {ReadError, ReadError \o <<"\n">>,
                    <<"v", "e", "r", "s", ":", "2", "a">>,
                    <<"v", ":", "-", "1", "\n">>,
                    <<"g", ":", "a", "2", "\r", "\n">>, <<"2", "a", "\n">>,
                    <<":", "g", "\n">>,
                    <<"v", ":", "0", "x", "F", "f", "\r", "\n">>})

FirmwareHw ==
    {[GoodHw EXCEPT !.port = Port("none", b)] : b \in 0..ByteMax}
    \cup {[GoodHw EXCEPT !.port = Port(f, 0)] : f \in PortFaults}
    \cup {[GoodHw EXCEPT !.cpld[bus] = f] : bus \in CpldBuses, f \in VersFiles}
    \cup {[GoodHw EXCEPT !.mailbox["smf_firmware_ver"] = f] :
             f \in FilesWith({<<>>, <<"1", ".", "2", "\n">>, <<"7">>,
                              <<"1", ".", "2", ".", "3">>, <<"x">>})}
    \cup {[GoodHw EXCEPT !.bios = b] :
             b \in {Bios(FALSE, <<>>), Bios(TRUE, <<>>),
                    Bios(TRUE, <<"1", ".", "0", "\n", "\n">>)}}

\* what each resource may become in the whole-program specification
MainRegisterFiles(reg_name) ==
    CASE reg_name = "smf_reset_reason" ->
             {AbsentFile, File(TRUE, "none", <<"1", "1", "\n">>),
              File(TRUE, "none", <<"3", "3", "\n">>)}
      [] reg_name = "smf_poweron_reason" ->
             {File(TRUE, "none", <<"1", "1", "\n">>),
              File(TRUE, "none", <<"9", "9", "\n">>)}
      [] OTHER -> {GoodHw.mailbox["smf_firmware_ver"], AbsentFile}

MainCplds ==
    {GoodHw.cpld, [GoodHw.cpld EXCEPT ![14] = AbsentFile],
     [GoodHw.cpld EXCEPT ![15] = File(TRUE, "none", ReadError)]}

MainPorts == {GoodHw.port, Port("seek_wrong", 0), Port("open", 0)}

MainBioses == {GoodHw.bios, Bios(FALSE, <<>>)}

\* the hardware changes under the running program, one resource at a time
HwChange ==
    /\ Ready
    /\ hw' \in (UNION {{[hw EXCEPT !.mailbox[reg_name] = f] :
                           f \in MainRegisterFiles(reg_name)} :
                       reg_name \in RegisterNames}
                \cup {[hw EXCEPT !.cpld = c] : c \in MainCplds}
                \cup {[hw EXCEPT !.port = io] : io \in MainPorts}
                \cup {[hw EXCEPT !.bios = b] : b \in MainBioses}) \ {hw}
    /\ call' = NoCall
    /\ UNCHANGED <<cls, pc, sfp_list, fan_list, component_name_list,
                   sys_eeprom, open_fds>>

-----------------------------------------------------------------------------
(* Specifications *)

\* the lists as __init__ leaves them
ConstructedSfpList == [k \in 1..PORTS_IN_BLOCK |-> SfpNode(k - 1)]
ConstructedFanList ==
    [k \in 1..(MAX_Z9100_FANTRAY * MAX_Z9100_FAN) |->
        Fan((k - 1) \div MAX_Z9100_FAN, (k - 1) % MAX_Z9100_FAN)]

\* a constructed Chassis on one of the given switches
Constructed(hardware) ==
    /\ cls = ClassAttributes
    /\ pc = At("ready", 0, 0)
    /\ sfp_list = ConstructedSfpList
    /\ fan_list = ConstructedFanList
    /\ component_name_list = ComponentNames
    /\ sys_eeprom = Z9100Eeprom("1")
    /\ hw \in hardware
    /\ open_fds = 0
    /\ call = NoCall

\* the whole program: construction, then accessors on changing hardware
Init ==
    /\ cls = ClassAttributes
    /\ pc = At("sfp", 0, 0)
    /\ sfp_list = <<>>
    /\ fan_list = <<>>
    /\ component_name_list = <<>>
    /\ sys_eeprom = NoEeprom
    /\ hw = GoodHw
    /\ open_fds = 0
    /\ call = NoCall

Next ==
    \/ InitSfp
    \/ ChassisBaseInit
    \/ InitEeprom
    \/ InitFan
    \/ InitComponentList
    \/ GetName
    \/ GetPresence
    \/ GetModel
    \/ GetSerial
    \/ GetStatus
    \/ GetBaseMac
    \/ GetSerialNumber
    \/ GetRebootCause
    \/ GetFirmwareVersion
    \/ HwChange

Spec == Init /\ [][Next]_vars

\* get_reboot_cause over the reason registers
InitReboot == Constructed(RebootHw)
NextReboot == GetRebootCause
SpecReboot == InitReboot /\ [][NextReboot]_vars

\* the register read primitive over register texts
InitRegister == Constructed(RegisterHw)
NextRegister == ReadRegister
SpecRegister == InitRegister /\ [][NextRegister]_vars

\* get_firmware_version over each component's resource
InitFirmware == Constructed(FirmwareHw)
NextFirmware == GetFirmwareVersion
SpecFirmware == InitFirmware /\ [][NextFirmware]_vars

-----------------------------------------------------------------------------
(* Properties *)

\* the register file holds the number n as the driver prints it
Holds(reg_name, n) ==
    hw.mailbox[reg_name] = File(TRUE, "none", DecStr(n) \o <<"\n">>)

\* the register file is missing, cannot be read, or holds no number
HoldsNoNumber(reg_name) ==
    \/ ~hw.mailbox[reg_name].exists
    \/ hw.mailbox[reg_name].fault # "none"
    \/ hw.mailbox[reg_name].content \in {<<>>, ERR, <<"3", "x", "\n">>}

InvalidReason == <<"REBOOT_CAUSE_HARDWARE_OTHER", "Invalid Reason">>

\* C1: for every pair of integer register values (reset_reason,
\* power_reason), get_reboot_cause returns the power-cause table's entry
\* with no detail when reset_reason = 11 and power_reason is one of 11, 22,
\* 33, 44; the reset-cause table's entry with no detail when reset_reason is
\* one of 33, 44, 55, whatever power_reason is; and (HARDWARE_OTHER,
\* "Invalid Reason") in every other case, a power-loss reset with an
\* unlisted power_reason included.
C1_RebootCauseDecision ==
    call.op = "get_reboot_cause" =>
        \A rr \in {n \in 0..MaxReason : Holds("smf_reset_reason", n)},
           pr \in {n \in 0..MaxReason : Holds("smf_poweron_reason", n)} :
            /\ call.kind = "return"
            /\ call.val =
                     IF rr = 11
                     THEN CASE pr = 11 -> <<"REBOOT_CAUSE_POWER_LOSS", "None">>
                            [] pr = 22 ->
                                 <<"REBOOT_CAUSE_THERMAL_OVERLOAD_CPU", "None">>
                            [] pr = 33 ->
                                 <<"REBOOT_CAUSE_THERMAL_OVERLOAD_ASIC", "None">>
                            [] pr = 44 ->
                                 <<"REBOOT_CAUSE_INSUFFICIENT_FAN_SPEED", "None">>
                            [] OTHER -> InvalidReason
                     ELSE CASE rr = 33 -> <<"REBOOT_CAUSE_WATCHDOG", "None">>
                            [] rr \in {44, 55} ->
                                 <<"REBOOT_CAUSE_NON_HARDWARE", "None">>
                            [] OTHER -> InvalidReason

\* a power-loss reset whose power-on reason is in no table ends in the default
C1_Witness ==
    /\ call.op = "get_reboot_cause"
    /\ Holds("smf_reset_reason", 11)
    /\ Holds("smf_poweron_reason", 99)
    /\ call.val = InvalidReason

\* C2: when the reset-reason or the power-on-reason register cannot be
\* parsed as an integer (its file is missing, so the read yields "ERR", or it
\* holds no number), get_reboot_cause returns (HARDWARE_OTHER,
\* "Invalid Reason") and does not fail.
C2_UnparsedRegisterIsInvalidReason ==
    /\ call.op = "get_reboot_cause"
    /\ HoldsNoNumber("smf_reset_reason") \/ HoldsNoNumber("smf_poweron_reason")
    => call.kind = "return" /\ call.val = InvalidReason

\* the names __init__ registers
RegisteredNames == {"BIOS", "CPLD1", "CPLD2", "CPLD3", "CPLD4", "FPGA1"}

\* the resource a component's version is read from
ResourceOf(component_name) ==
    CASE component_name = "BIOS" ->
             [kind |-> "cmd", name |-> "dmidecode -s system-version", bus |-> 0]
      [] component_name = "CPLD1" ->
             [kind |-> "port", name |-> "/dev/port", bus |-> 0]
      [] component_name = "CPLD2" ->
             [kind |-> "cpld", name |-> "iom_cpld_vers", bus |-> 14]
      [] component_name = "CPLD3" ->
             [kind |-> "cpld", name |-> "iom_cpld_vers", bus |-> 15]
      [] component_name = "CPLD4" ->
             [kind |-> "cpld", name |-> "iom_cpld_vers", bus |-> 16]
      [] component_name = "FPGA1" ->
             [kind |-> "mailbox", name |-> "smf_firmware_ver", bus |-> 0]

\* the component's file is absent or cannot be opened, its port cannot be
\* opened, or its command cannot be launched
ResourceMissing(component_name) ==
    LET res == ResourceOf(component_name)
    IN  CASE res.kind = "cmd"  -> ~hw.bios.launch_ok
          [] res.kind = "port" -> hw.port.fault = "open"
          [] OTHER -> ~FileAt(hw, res).exists \/ FileAt(hw, res).fault = "open"

\* C3: for every registered component, when the file or I/O port that
\* get_firmware_version reads is absent or cannot be opened, the call
\* returns a sentinel ("ERR" or "NA", the empty string for BIOS) and never
\* ends in an exception.
C3_MissingResourceGivesSentinel ==
    /\ call.op = "get_firmware_version"
    /\ call.arg \in RegisteredNames
    /\ ResourceMissing(call.arg)
    => /\ call.kind = "return"
       /\ call.val \in IF call.arg = "BIOS" THEN {<<>>} ELSE {ERR, NA}

\* C4: after any accessor call has ended, by a return, a sentinel or an
\* error, every handle the call opened is closed again.
C4_NoHandleLeftOpen == open_fds = 0

\* r is c without its leading spaces and its trailing line ends
Stripped(r, c) ==
    \E i \in 0..Len(c), j \in 0..Len(c) :
        /\ i + j <= Len(c)
        /\ r = SubSeq(c, i + 1, Len(c) - j)
        /\ \A k \in 1..i : c[k] = " "
        /\ \A k \in (Len(c) - j + 1)..Len(c) : c[k] \in {"\r", "\n"}
        /\ r # <<>> => Head(r) # " " /\ r[Len(r)] \notin {"\r", "\n"}

\* C5: read_register(name) never fails; it returns "ERR" when the file
\* <mailbox-directory>/<name> does not exist or reading it raises an error,
\* and otherwise the file's content with all trailing newlines and carriage
\* returns and all leading spaces removed and nothing else changed.
C5_ReadRegister ==
    call.op = "read_register" =>
        LET f == FileAt(hw, [kind |-> "mailbox", name |-> call.arg, bus |-> 0])
        IN  /\ call.kind = "return"
            /\ IF ~f.exists \/ f.fault # "none"
               THEN call.val = ERR
               ELSE Stripped(call.val, f.content)

\* the content "  5\r\n" is read as "5"
C5_Witness ==
    /\ call.op = "read_register"
    /\ call.arg = "smf_reset_reason"
    /\ hw.mailbox["smf_reset_reason"] =
           File(TRUE, "none", <<" ", " ", "5", "\r", "\n">>)
    /\ call.val = <<"5">>

\* the two low nibbles of v, "<high>.<low>" in decimal
TwoNibbles(v) == DecStr((v \div 16) % 16) \o <<".">> \o DecStr(v % 16)

\* the content is "<key>:<hex digits>" with an optional line end
PlainVersion(c) ==
    LET t == RStrip(c, {"\r", "\n"})
    IN  /\ Cardinality({k \in 1..Len(t) : t[k] = ":"}) = 1
        /\ \E k \in 1..(Len(t) - 1) :
               /\ t[k] = ":"
               /\ \A m \in (k + 1)..Len(t) : DigitValue(t[m], 16) >= 0

\* the hexadecimal value after the colon of a plain version content
PlainVersionValue(c) ==
    LET t == RStrip(c, {"\r", "\n"})
        k == CHOOSE k \in 1..Len(t) : t[k] = ":"
    IN  DigitsValue(SubSeq(t, k + 1, Len(t)), 16)

\* C6: for CPLD1 every byte b read at offset 0x100 is returned as
\* "<b div 16>.<b mod 16>" in decimal; for CPLD n in 2..4 the file
\* i2c-{12+n}/{12+n}-003e/iom_cpld_vers is read, "NA" is returned when it is
\* absent, unreadable or holds "read error", and a content "<key>:<hex>" is
\* returned as the two low nibbles of the hexadecimal value in the same
\* format.
C6_CpldVersionDecoding ==
    call.op = "get_firmware_version" =>
        /\ call.arg = "CPLD1" /\ hw.port.fault = "none" =>
               /\ call.kind = "return"
               /\ call.val = DecStr(hw.port.byte \div 16) \o <<".">>
                                 \o DecStr(hw.port.byte % 16)
        /\ \A n \in 2..4 :
               call.arg = ComponentNames[n + 1] =>
                   LET f == hw.cpld[12 + n]
                   IN  /\ call.reads = <<[kind |-> "cpld",
                                          name |-> "iom_cpld_vers",
                                          bus |-> 12 + n]>>
                       /\ ~f.exists \/ f.fault # "none"
                              \/ f.content = ReadError =>
                              call.kind = "return" /\ call.val = NA
                       /\ f.exists /\ f.fault = "none"
                              /\ PlainVersion(f.content) =>
                              /\ call.kind = "return"
                              /\ call.val = TwoNibbles(PlainVersionValue(f.content))

\* CPLD2 holding "vers:2a" reads as "2.10"
C6_Witness ==
    /\ call.op = "get_firmware_version"
    /\ call.arg = "CPLD2"
    /\ hw.cpld[14] = File(TRUE, "none", <<"v", "e", "r", "s", ":", "2", "a">>)
    /\ call.val = <<"2", ".", "1", "0">>

\* the content is the read-error marker with a line end, has no colon, or
\* has a value part that is not hexadecimal
MalformedVersion(c) ==
    LET t == RStrip(c, {"\r", "\n"})
    IN  \/ c # ReadError /\ t = ReadError
        \/ \A k \in 1..Len(t) : t[k] # ":"
        \/ \E k \in 1..Len(t) :
               /\ t[k] = ":"
               /\ \A m \in 1..(k - 1) : t[m] # ":"
               /\ \/ k = Len(t)
                  \/ \E m \in (k + 1)..Len(t) :
                         t[m] # ":" /\ DigitValue(t[m], 16) < 0

\* C7: malformed content in a CPLD2..CPLD4 version file is masked:
\* get_firmware_version returns "NA" and does not fail; only the FPGA1 path
\* lets a parse failure reach the caller.
C7_MalformedVersionIsMasked ==
    call.op = "get_firmware_version" =>
        /\ \A n \in 2..4 :
               /\ call.arg = ComponentNames[n + 1]
               /\ hw.cpld[12 + n].exists
               /\ hw.cpld[12 + n].fault = "none"
               /\ hw.cpld[12 + n].content # ReadError
               /\ MalformedVersion(hw.cpld[12 + n].content)
               => call.kind = "return" /\ call.val = NA
        /\ call.kind = "raise" /\ call.type \in {"ValueError", "IndexError"}
               => call.arg = "FPGA1"

\* C8: get_firmware_version dispatches by exact string match: a name that is
\* not one of the six registered names gives None with no read and no error,
\* and a registered name reads exactly its own component's resource (CPLD k
\* that of CPLD number k).
C8_DispatchByExactName ==
    call.op = "get_firmware_version" =>
        IF call.arg \notin RegisteredNames
        THEN call.kind = "return" /\ call.type = "None" /\ call.reads = <<>>
        ELSE call.type # "None" /\ call.reads = <<ResourceOf(call.arg)>>

\* a name one character away from a registered one is answered None
C8_Witness ==
    /\ call.op = "get_firmware_version"
    /\ call.arg = "CPLD5"
    /\ call.type = "None"
    /\ call.reads = <<>>

\* __init__ is past ChassisBase.__init__
PastBaseInit == pc.at \in {"eeprom", "fan", "comp", "ready"}

ConstructionAgrees ==
    Ready => /\ cls = ClassAttributes
             /\ sfp_list = ConstructedSfpList
             /\ fan_list = ConstructedFanList
             /\ component_name_list = ComponentNames
             /\ sys_eeprom \in EepromContents
             /\ pc = At("ready", 0, 0)

====
